---- MODULE Spec2Model ----
(***************************************************************************)
(* PassGen: the strength classifier (Password::entropy, Password::classify)*)
(* and the dictionary-safety check (Password::is_safe and its word-break   *)
(* routine is_combination_of_word_set) of src/passgen/checker.rs, over the *)
(* alphabets of src/passgen/alphabet.rs and the corpora of                 *)
(* src/passgen/commonwords.rs.                                             *)
(*                                                                         *)
(* A char is its Unicode scalar value; a str is the sequence of its chars, *)
(* and its bytes are its UTF-8 encoding: str::len and the slice            *)
(* &password[j..i] count and cut bytes, chars() walks scalars.             *)
(***************************************************************************)
EXTENDS Integers, Sequences, FiniteSets, TLC

VARIABLES
    value,            \* Password.value
    alphabet,         \* the Alphabet handed to classify
    common_words,     \* the CommonWords handed to is_safe
    words_arg,        \* the words slice handed to is_combination_of_words
    alphabet_arg,     \* the usize handed to entropy
    pc,               \* which call has been made on the password
    entropy_bits,     \* the f64 of entropy, in units of 2^-FracBits bit
    classification,   \* the Classification of classify, or "Err"
    combination,      \* what is_combination_of_words did
    safe,             \* what is_safe did
    segmentation      \* calls is_safe made to is_combination_of_word_set

VARIABLES
    size,             \* what Alphabet::len returned
    line,             \* the line handed to parse_eff_line
    parsed,           \* the Option<&str> parse_eff_line returned
    file,             \* the lines() of a wordlist resource
    loaded,           \* the Vec the wordlist loader collected
    gen_len,          \* the length handed to generate_password
    strength,         \* the strength flag handed to generate_password
    output,           \* what generate_password did: printed, or panicked
    word_count,       \* the word_count handed to generate_passphrase
    separator,        \* the separator handed to generate_passphrase
    wordlist,         \* the WordList handed to generate_passphrase
    passphrase_parts  \* the words generate_passphrase drew

VARIABLES
    resources,        \* the text of each include_str! resource
    once,             \* the state of each OnceLock
    cache,            \* the value held by each OnceLock
    runs,             \* how often each cache's closure has been entered
    callers,          \* each caller's position in its call
    first,            \* what the first call for each cache returned
    asked,            \* the caches a caller has asked for so far
    message           \* what check_password_safety returned

VARIABLES
    common,           \* the --common flag of the Check command
    user_wordlist,    \* the --wordlist option of the Check command
    stdout,           \* the lines the Check command printed
    stderr            \* the lines the Check command printed to stderr

callVars == <<value, alphabet, common_words, words_arg, alphabet_arg, pc,
              entropy_bits, classification, combination, safe, segmentation>>

sizeVars == <<size>>

parseVars == <<line, parsed, file, loaded>>

genVars == <<gen_len, strength, output>>

phraseVars == <<word_count, separator, wordlist, passphrase_parts>>

cacheVars == <<resources, once, cache, runs, callers, first, asked>>

checkVars == <<message>>

cmdVars == <<common, user_wordlist, stdout, stderr>>

libVars == <<cacheVars, checkVars, cmdVars>>

extVars == <<sizeVars, parseVars, genVars, phraseVars, libVars>>

vars == <<callVars, extVars>>

NoSize == 0 - 1

SizeIdle == size = NoSize

None == [some |-> FALSE, word |-> <<>>]
Some(w) == [some |-> TRUE, word |-> w]

ParseIdle == line = <<>> /\ parsed = None /\ file = <<>> /\ loaded = <<>>

GenIdle == gen_len = 0 /\ strength = FALSE /\ output = "none"

PhraseIdle ==
    /\ word_count = 0
    /\ separator = <<>>
    /\ wordlist = [tag |-> "Custom", custom |-> <<>>]
    /\ passphrase_parts = <<>>

\* the five corpora read from resources/common, in the order get_common_all
\* visits them
NamedCorpora == <<"Passwords", "English", "MaleNames", "FemaleNames", "LastNames">>

Named == {NamedCorpora[i] : i \in DOMAIN NamedCorpora}

\* the three EFF wordlists read from resources/wordlists
Wordlists == {"EffLarge", "EffShort1", "EffShort2"}

\* the statics of commonwords.rs and wordlist.rs, one OnceLock each
Caches == Named \cup {"All"} \cup Wordlists

\* the include_str! texts: All has a cache and no text of its own
Resources == Named \cup Wordlists

\* threads that call into the library at the same time
NumCallers == 2
\* calls each thread makes
MaxCalls == 2

Callers == 1..NumCallers

\* a thread outside every call: stack holds the caches whose get_or_init it
\* is inside, k and acc the place and the HashSet of get_common_all's closure
IdleCaller ==
    [pc |-> "idle", stack |-> <<>>, k |-> 0, acc |-> {}, want |-> "none",
     got |-> None, calls |-> 0]

CacheIdle ==
    /\ resources = [r \in Resources |-> <<>>]
    /\ once = [c \in Caches |-> "incomplete"]
    /\ cache = [c \in Caches |-> None]
    /\ runs = [c \in Caches |-> 0]
    /\ callers = [t \in Callers |-> IdleCaller]
    /\ first = [c \in Caches |-> None]
    /\ asked = {}

CheckIdle == message = "none"

CmdIdle ==
    /\ common = FALSE
    /\ user_wordlist = None
    /\ stdout = <<>>
    /\ stderr = <<>>

LibIdle == CacheIdle /\ CheckIdle /\ CmdIdle

\* nothing but a password call is under way
ExtIdle == SizeIdle /\ ParseIdle /\ GenIdle /\ PhraseIdle /\ LibIdle

(***************************************************************************)
(* Bounds of the model.                                                    *)
(***************************************************************************)
\* longest run of one repeated char in a secret handed to classify/entropy
MaxRun == 15
\* longest run of one repeated char in a Custom alphabet
MaxAlphabetRun == 16
\* largest alphabet size handed to entropy directly
MaxAlphabetSize == 72
\* longest secret (in chars) handed to is_safe / is_combination_of_words
MaxSecretLen == 3
\* fractional bits kept of the f64 entropy
FracBits == 10

(***************************************************************************)
(* chars and strs                                                          *)
(***************************************************************************)
\* the chars the model draws its strs from: 'a' 'b' 'A' '1', U+00E9 (e with
\* acute, 2 bytes), U+0130 (capital I with dot above, 2 bytes), whose
\* lower-case form is the two chars 'i' U+0307 (3 bytes)
Char ==
    [a |-> 97, b |-> 98, A |-> 65, one |-> 49, e_acute |-> 233,
     I_dot |-> 304, i |-> 105, dot_above |-> 775]

ClassifyChars == {Char.a, Char.A, Char.one, Char.e_acute}
SafeChars == {Char.a, Char.b, Char.A, Char.e_acute, Char.I_dot}

\* the UTF-8 encoding of one char (scalars below U+10000)
Utf8(c) ==
    IF c < 128 THEN <<c>>
    ELSE IF c < 2048 THEN <<192 + (c \div 64), 128 + (c % 64)>>
    ELSE <<224 + (c \div 4096), 128 + ((c \div 64) % 64), 128 + (c % 64)>>

RECURSIVE Bytes(_)
\* the bytes of a str
Bytes(s) == IF s = <<>> THEN <<>> ELSE Utf8(Head(s)) \o Bytes(Tail(s))

\* str::len: the length in bytes
StrLen(s) == Len(Bytes(s))

\* str::is_char_boundary on the bytes b of a str
IsCharBoundary(b, k) ==
    \/ k = 0
    \/ k = Len(b)
    \/ k < Len(b) /\ ~(b[k + 1] \in 128..191)

\* char::to_lowercase, on the chars the model draws
CharToLowercase(c) ==
    IF c \in 65..90 THEN <<c + 32>>
    ELSE IF c \in 192..222 /\ c # 215 THEN <<c + 32>>
    ELSE IF c = Char.I_dot THEN <<Char.i, Char.dot_above>>
    ELSE <<c>>

RECURSIVE ToLowercase(_)
\* str::to_lowercase
ToLowercase(s) ==
    IF s = <<>> THEN <<>> ELSE CharToLowercase(Head(s)) \o ToLowercase(Tail(s))

RECURSIVE Repeat(_, _)
Repeat(c, n) == IF n = 0 THEN <<>> ELSE <<c>> \o Repeat(c, n - 1)

\* every str of at most n chars over the chars cs
StrsUpTo(cs, n) == UNION {[1..k -> cs] : k \in 0..n}

\* a run of one char, then at most one more char
RunStrs(cs, n) ==
    {Repeat(c, k) \o t : c \in cs, k \in 0..n, t \in StrsUpTo(cs, 1)}

(***************************************************************************)
(* alphabet.rs                                                             *)
(***************************************************************************)
LOWER_CASE == [i \in 1..26 |-> 96 + i]
UPPER_CASE == [i \in 1..26 |-> 64 + i]
DIGITS == [i \in 1..10 |-> 47 + i]
SPECIAL_CHARS == <<33, 64, 35, 36, 37, 94, 38, 42>>
FULL == LOWER_CASE \o UPPER_CASE \o DIGITS \o SPECIAL_CHARS \o <<40, 41>>

Presets == {"Full", "LowerCase", "UpperCase", "Digits", "SpecialChars"}
Preset(t) == [tag |-> t, custom |-> <<>>]
Custom(s) == [tag |-> "Custom", custom |-> s]

\* Alphabet::as_str
as_str(a) ==
    CASE a.tag = "Full" -> FULL
      [] a.tag = "LowerCase" -> LOWER_CASE
      [] a.tag = "UpperCase" -> UPPER_CASE
      [] a.tag = "Digits" -> DIGITS
      [] a.tag = "SpecialChars" -> SPECIAL_CHARS
      [] a.tag = "Custom" -> a.custom

\* Alphabet::contains
contains(a, c) == \E i \in DOMAIN as_str(a) : as_str(a)[i] = c

\* Alphabet::len
len(a) == StrLen(as_str(a))

(***************************************************************************)
(* checker.rs: entropy and classify                                        *)
(***************************************************************************)
WeakLimit == 28
MediumLimit == 40
StrongLimit == 60

One == 2 ^ FracBits
Mantissa == 2 ^ 14

RECURSIVE FloorLog2(_)
FloorLog2(n) == IF n < 2 THEN 0 ELSE 1 + FloorLog2(n \div 2)

RECURSIVE FracLog2(_, _)
\* the first `bits` binary digits of log2(m / Mantissa), 1 <= m / Mantissa < 2
FracLog2(m, bits) ==
    IF bits = 0 THEN 0
    ELSE LET sq == (m * m) \div Mantissa
         IN  IF sq >= 2 * Mantissa
             THEN 2 ^ (bits - 1) + FracLog2(sq \div 2, bits - 1)
             ELSE FracLog2(sq, bits - 1)

\* f64::log2 of n >= 1, in units of 2^-FracBits
Log2(n) ==
    LET k == FloorLog2(n)
    IN  k * One + FracLog2(n * 2 ^ (14 - k), FracBits)

MinusInfinity == 0 - 2 ^ 30

\* entropy without its zero guard: log2(0) is -inf
EntropyUnguarded(v, n) == IF n = 0 THEN MinusInfinity ELSE StrLen(v) * Log2(n)

\* Password::entropy
Entropy(v, n) ==
    LET length == StrLen(v)
    IN  IF length = 0 \/ n = 0 THEN 0 ELSE length * Log2(n)

NotComputed == 0 - 1

TierOpenAbove(e) ==
    IF e <= WeakLimit * One THEN "Weak"
    ELSE IF e <= MediumLimit * One THEN "Medium"
    ELSE IF e <= StrongLimit * One THEN "Strong"
    ELSE "VeryStrong"

\* Password::classify, the tier of an entropy
Tier(e) ==
    IF e < WeakLimit * One THEN "Weak"
    ELSE IF e < MediumLimit * One THEN "Medium"
    ELSE IF e < StrongLimit * One THEN "Strong"
    ELSE "VeryStrong"

\* any() where the code has all()
ValidSome(v, a) == \E i \in DOMAIN v : contains(a, v[i])

\* only the first char validated
ValidFirst(v, a) == v = <<>> \/ contains(a, v[1])

\* Password::classify, the validation
Valid(v, a) == \A i \in DOMAIN v : contains(a, v[i])

\* Password::classify: the entropy it computed (if any) and its result
ClassifyRun(v, a) ==
    IF ~Valid(v, a)
    THEN [entropy |-> NotComputed, result |-> "Err"]
    ELSE LET e == Entropy(v, len(a))
         IN  [entropy |-> e, result |-> Tier(e)]

NoCorpus == [tag |-> "Custom", custom |-> <<>>]

TypeOK ==
    /\ pc \in {"ready", "measured", "classified", "combined", "checked", "sized",
              "parsed", "loaded", "generated", "phrased", "vetted",
              "commanded"}
    /\ classification \in {"None", "Err", "Weak", "Medium", "Strong", "VeryStrong"}
    /\ entropy_bits \in Int
    /\ combination \in {"none", "true", "false", "panic"}
    /\ safe \in {"none", "true", "false", "panic"}
    /\ segmentation \in {0, 1}

\* classify(&alphabet) on the password
Classify ==
    /\ pc = "ready"
    /\ pc' = "classified"
    /\ entropy_bits' = ClassifyRun(value, alphabet).entropy
    /\ classification' = ClassifyRun(value, alphabet).result
    /\ UNCHANGED <<value, alphabet, common_words, words_arg, alphabet_arg,
                   combination, safe, segmentation>>
    /\ UNCHANGED extVars

\* entropy(n) on the password
EntropyCall(n) ==
    /\ pc = "ready"
    /\ pc' = "measured"
    /\ alphabet_arg' = n
    /\ entropy_bits' = Entropy(value, n)
    /\ UNCHANGED <<value, alphabet, common_words, words_arg,
                   classification, combination, safe, segmentation>>
    /\ UNCHANGED extVars

InitCommon ==
    /\ ExtIdle
    /\ pc = "ready"
    /\ entropy_bits = NotComputed
    /\ classification = "None"
    /\ combination = "none"
    /\ safe = "none"
    /\ segmentation = 0
    /\ alphabet_arg = 0
    /\ words_arg = <<>>

Alphabets ==
    {Preset(t) : t \in Presets}
        \cup {Custom(s) : s \in RunStrs(ClassifyChars, MaxAlphabetRun)}

InitClassify ==
    /\ InitCommon
    /\ value \in RunStrs(ClassifyChars, MaxRun)
    /\ alphabet \in Alphabets
    /\ common_words = NoCorpus

\* alphabet.len()
AlphabetLen ==
    /\ pc = "ready"
    /\ pc' = "sized"
    /\ size' = len(alphabet)
    /\ UNCHANGED <<value, alphabet, common_words, words_arg, alphabet_arg,
                   entropy_bits, classification, combination, safe,
                   segmentation>>
    /\ UNCHANGED <<parseVars, genVars, phraseVars, libVars>>

NextClassify == Classify \/ AlphabetLen

SpecClassify == InitClassify /\ [][NextClassify]_vars

InitEntropy ==
    /\ InitCommon
    /\ value \in RunStrs(ClassifyChars, MaxRun)
    /\ alphabet = Preset("Full")
    /\ common_words = NoCorpus

NextEntropy == \E n \in 0..MaxAlphabetSize : EntropyCall(n)

SpecEntropy == InitEntropy /\ [][NextEntropy]_vars

(***************************************************************************)
(* commonwords.rs and checker.rs: is_safe and the word-break routine       *)
(***************************************************************************)
\* CommonWords::Custom(Vec<String>)
CustomWords(ws) == [tag |-> "Custom", custom |-> ws]

\* CommonWords::words
words(cw) == cw.custom

\* words.iter().cloned().collect::<HashSet<_>>(): strs compare by their bytes
WordSet(ws) == {Bytes(ws[i]) : i \in DOMAIN ws}

RECURSIVE Scan(_, _, _, _, _)
\* the inner loop, for j in 0..i: "found" on the break, "panic" when the
\* slice &password[j..i] does not lie on char boundaries, else "none"
Scan(password, word_set, dp, i, j) ==
    IF j >= i THEN "none"
    ELSE IF dp[j + 1]
         THEN IF ~(IsCharBoundary(password, j) /\ IsCharBoundary(password, i))
              THEN "panic"
              ELSE IF SubSeq(password, j + 1, i) \in word_set
                   THEN "found"
                   ELSE Scan(password, word_set, dp, i, j + 1)
         ELSE Scan(password, word_set, dp, i, j + 1)

RECURSIVE Fill(_, _, _, _)
\* the outer loop, for i in 1..=password.len(), and the final dp[password.len()]
Fill(password, word_set, dp, i) ==
    IF i > Len(password)
    THEN IF dp[Len(password) + 1] THEN "true" ELSE "false"
    ELSE LET r == Scan(password, word_set, dp, i, 0)
         IN  IF r = "panic" THEN "panic"
             ELSE Fill(password, word_set,
                       [dp EXCEPT ![i + 1] = (r = "found")], i + 1)

\* Password::is_combination_of_word_set: dp[k + 1] is the code's dp[k]
is_combination_of_word_set(v, word_set) ==
    LET password == Bytes(ToLowercase(v))
        dp == [k \in 1..(Len(password) + 1) |-> k = 1]
    IN  Fill(password, word_set, dp, 1)

\* Password::is_combination_of_words
is_combination_of_words(v, ws) == is_combination_of_word_set(v, WordSet(ws))

\* is_safe without its empty-password check
IsSafeNoEmptyCheck(v, cw) ==
    LET word_set == WordSet(words(cw))
        lowercase_password == Bytes(ToLowercase(v))
    IN  IF lowercase_password \in word_set
        THEN [ret |-> "false", calls |-> 0]
        ELSE LET c == is_combination_of_word_set(v, word_set)
             IN  [ret |-> CASE c = "panic" -> "panic"
                            [] c = "true" -> "false"
                            [] c = "false" -> "true",
                  calls |-> 1]

\* Password::is_safe: what it returns ("panic" when it unwinds) and how
\* often it called is_combination_of_word_set
IsSafeRun(v, cw) ==
    IF Bytes(v) = <<>>
    THEN [ret |-> "false", calls |-> 0]
    ELSE LET word_set == WordSet(words(cw))
             lowercase_password == Bytes(ToLowercase(v))
         IN  IF lowercase_password \in word_set
             THEN [ret |-> "false", calls |-> 0]
             ELSE LET c == is_combination_of_word_set(v, word_set)
                  IN  [ret |-> CASE c = "panic" -> "panic"
                                 [] c = "true" -> "false"
                                 [] c = "false" -> "true",
                       calls |-> 1]

\* is_safe(&common_words) on the password
IsSafe ==
    /\ pc = "ready"
    /\ pc' = "checked"
    /\ safe' = IsSafeRun(value, common_words).ret
    /\ segmentation' = IsSafeRun(value, common_words).calls
    /\ UNCHANGED <<value, alphabet, common_words, words_arg, alphabet_arg,
                   entropy_bits, classification, combination>>
    /\ UNCHANGED extVars

\* is_combination_of_words(&words) on the password
IsCombinationOfWords ==
    /\ pc = "ready"
    /\ pc' = "combined"
    /\ combination' = is_combination_of_words(value, words_arg)
    /\ UNCHANGED <<value, alphabet, common_words, words_arg, alphabet_arg,
                   entropy_bits, classification, safe, segmentation>>
    /\ UNCHANGED extVars

\* "a" "b" "ab" "ba" "A" "e-acute" "i + combining dot"
WordPool ==
    {<<Char.a>>, <<Char.b>>, <<Char.a, Char.b>>,
     <<Char.b, Char.a>>, <<Char.A>>, <<Char.e_acute>>,
     <<Char.i, Char.dot_above>>}

RECURSIVE SeqOf(_)
\* a Vec holding the words of a set
SeqOf(S) ==
    IF S = {} THEN <<>>
    ELSE LET w == CHOOSE x \in S : TRUE IN <<w>> \o SeqOf(S \ {w})

InitSafe ==
    /\ ExtIdle
    /\ pc = "ready"
    /\ entropy_bits = NotComputed
    /\ classification = "None"
    /\ combination = "none"
    /\ safe = "none"
    /\ segmentation = 0
    /\ alphabet_arg = 0
    /\ alphabet = Preset("Full")
    /\ value \in StrsUpTo(SafeChars, MaxSecretLen)
    /\ \E D \in SUBSET WordPool :
          /\ common_words = CustomWords(SeqOf(D))
          /\ words_arg = SeqOf(D)

NextSafe == IsSafe \/ IsCombinationOfWords

SpecSafe == InitSafe /\ [][NextSafe]_vars

(***************************************************************************)
(* Claims about classify and entropy                                       *)
(***************************************************************************)
Tiers == {"Weak", "Medium", "Strong", "VeryStrong"}

\* the chars of the alphabet's underlying string
CharsOf(a) == {as_str(a)[i] : i \in DOMAIN as_str(a)}

\* C1: classify returns an error if and only if at least one character of
\* the secret is not contained in the alphabet (preset or Custom, the empty
\* Custom alphabet included); in every other case it returns exactly one of
\* Weak, Medium, Strong, VeryStrong.
C1_ErrorIffCharOutsideAlphabet ==
    pc = "classified" =>
        /\ classification = "Err" <=>
               \E i \in DOMAIN value : value[i] \notin CharsOf(alphabet)
        /\ classification # "Err" => classification \in Tiers

\* a non-empty secret is rejected by the empty Custom alphabet
C1_Witness ==
    /\ pc = "classified"
    /\ alphabet = Custom(<<>>)
    /\ value # <<>>
    /\ classification = "Err"

\* C2: for every accepted secret the tier is decided by half-open ascending
\* thresholds on the entropy e: e < 28 Weak, 28 <= e < 40 Medium,
\* 40 <= e < 60 Strong, e >= 60 VeryStrong; an entropy of exactly 28, 40 or
\* 60 falls in the upper tier.
C2_HalfOpenThresholds ==
    pc = "classified" /\ classification # "Err" =>
        /\ entropy_bits < WeakLimit * One <=> classification = "Weak"
        /\ WeakLimit * One <= entropy_bits /\ entropy_bits < MediumLimit * One
               <=> classification = "Medium"
        /\ MediumLimit * One <= entropy_bits /\ entropy_bits < StrongLimit * One
               <=> classification = "Strong"
        /\ StrongLimit * One <= entropy_bits <=> classification = "VeryStrong"
        /\ entropy_bits = WeakLimit * One => classification = "Medium"
        /\ entropy_bits = MediumLimit * One => classification = "Strong"
        /\ entropy_bits = StrongLimit * One => classification = "VeryStrong"

\* 7 one-byte chars over a 16-byte alphabet: entropy exactly 28, Medium
C2_Witness ==
    /\ pc = "classified"
    /\ StrLen(value) = 7
    /\ Len(value) = 7
    /\ len(alphabet) = 16
    /\ entropy_bits = WeakLimit * One
    /\ classification = "Medium"

\* C9: the empty secret classifies as Weak with entropy 0 for every
\* alphabet, the empty Custom alphabet included; no error is returned.
C9_EmptySecretIsWeak ==
    pc = "classified" /\ value = <<>> =>
        classification = "Weak" /\ entropy_bits = 0

\* the empty secret against the empty Custom alphabet
C9_Witness ==
    /\ pc = "classified"
    /\ value = <<>>
    /\ alphabet = Custom(<<>>)
    /\ classification = "Weak"

\* C10: entropy(L, N) is 0 when the length L is 0 or the alphabet size N is
\* 0, and otherwise L times log2(N): the quotient e / L is exact, its integer
\* part k has 2^k <= N < 2^(k+1), it is an integer exactly on the powers of
\* two, and its first two fractional bits q satisfy 2^q <= N^4 < 2^(q+1).
C10_EntropyIsLengthTimesLog2 ==
    pc = "measured" =>
        LET L == StrLen(value)
            N == alphabet_arg
            e == entropy_bits
        IN  /\ (L = 0 \/ N = 0) => e = 0
            /\ (L > 0 /\ N > 0) =>
                   /\ e % L = 0
                   /\ LET x == e \div L
                          k == x \div One
                          q == (4 * x) \div One
                      IN  /\ 2 ^ k <= N /\ N < 2 ^ (k + 1)
                          /\ (N = 2 ^ k) <=> (x % One = 0)
                          /\ 2 ^ q <= N * N * N * N
                          /\ N * N * N * N < 2 ^ (q + 1)

\* "password" over 26 letters: 8 * log2(26), about 37.6 bits
C10_Witness ==
    /\ pc = "measured"
    /\ StrLen(value) = 8
    /\ alphabet_arg = 26
    /\ entropy_bits > 37 * One
    /\ entropy_bits < 38 * One

\* entropy with a zero operand
C10_WitnessZero ==
    /\ pc = "measured"
    /\ StrLen(value) > 0
    /\ alphabet_arg = 0
    /\ entropy_bits = 0

(***************************************************************************)
(* Claims about is_safe and is_combination_of_word_set                     *)
(***************************************************************************)
\* the entries of a corpus, as strs
Entries(ws) == {ws[i] : i \in DOMAIN ws}

RECURSIVE Tiles(_, _)
\* s is a concatenation of zero or more strs of D, nothing left over
Tiles(s, D) ==
    \/ s = <<>>
    \/ \E k \in 1..Len(s) :
          /\ SubSeq(s, 1, k) \in D
          /\ Tiles(SubSeq(s, k + 1, Len(s)), D)

IsLowercase(s) == ToLowercase(s) = s

IsAscii(s) == \A i \in DOMAIN s : s[i] < 128

\* C3: for every non-empty secret s and corpus D, if the lower-cased s is a
\* concatenation of one or more entries of D, is_safe(s, D) returns false.
C3_ConcatenationIsUnsafe ==
    (/\ pc = "checked"
     /\ value # <<>>
     /\ Tiles(ToLowercase(value), Entries(words(common_words))))
        => safe = "false"

\* C3 where the lower-cased secret is ASCII
C3_OnAscii ==
    (/\ pc = "checked"
     /\ value # <<>>
     /\ IsAscii(ToLowercase(value))
     /\ Tiles(ToLowercase(value), Entries(words(common_words))))
        => safe = "false"

\* C4: is_safe returns false whenever the secret equals some entry of the
\* corpus ignoring letter case, also for a corpus whose entries are not
\* lower case.
C4_CaseInsensitiveEntryIsUnsafe ==
    (/\ pc = "checked"
     /\ \E w \in Entries(words(common_words)) :
           ToLowercase(w) = ToLowercase(value))
        => safe = "false"

\* C4 for a corpus whose entries are lower case
C4_OnLowercaseCorpus ==
    (/\ pc = "checked"
     /\ \A w \in Entries(words(common_words)) : IsLowercase(w)
     /\ \E w \in Entries(words(common_words)) :
           ToLowercase(w) = ToLowercase(value))
        => safe = "false"

\* C5: is_safe never panics: for every secret and corpus it returns a
\* boolean.
C5_IsSafeReturnsBoolean ==
    pc = "checked" => safe \in {"true", "false"}

\* C5 where the lower-cased secret is ASCII
C5_OnAscii ==
    pc = "checked" /\ IsAscii(ToLowercase(value)) => safe \in {"true", "false"}

\* C6: for every secret s and lower-case word set D,
\* is_combination_of_word_set(s, D) returns true if and only if the
\* lower-cased s can be partitioned into words of D (the empty secret
\* yields true), and false otherwise.
C6_SegmentationIsWordBreak ==
    (/\ pc = "combined"
     /\ \A w \in Entries(words_arg) : IsLowercase(w))
        => combination =
              IF Tiles(ToLowercase(value), Entries(words_arg))
              THEN "true" ELSE "false"

\* C6 where the lower-cased secret is ASCII
C6_OnAscii ==
    (/\ pc = "combined"
     /\ IsAscii(ToLowercase(value))
     /\ \A w \in Entries(words_arg) : IsLowercase(w))
        => combination =
              IF Tiles(ToLowercase(value), Entries(words_arg))
              THEN "true" ELSE "false"

\* C7: for every non-empty secret s and corpus D, if the lower-cased s is
\* neither an entry of D nor a concatenation of entries of D, is_safe(s, D)
\* returns true; with an empty corpus every non-empty secret is safe.
C7_OtherwiseSafe ==
    (/\ pc = "checked"
     /\ value # <<>>
     /\ ToLowercase(value) \notin Entries(words(common_words))
     /\ ~Tiles(ToLowercase(value), Entries(words(common_words))))
        => safe = "true"

\* C7 where the lower-cased secret is ASCII
C7_OnAscii ==
    (/\ pc = "checked"
     /\ value # <<>>
     /\ IsAscii(ToLowercase(value))
     /\ ToLowercase(value) \notin Entries(words(common_words))
     /\ ~Tiles(ToLowercase(value), Entries(words(common_words))))
        => safe = "true"

\* C8: is_safe returns false for the empty secret with every corpus, the
\* empty corpus included, without calling the segmentation routine.
C8_EmptySecretIsUnsafe ==
    pc = "checked" /\ value = <<>> => safe = "false" /\ segmentation = 0

\* the empty secret against the empty corpus
C8_Witness ==
    /\ pc = "checked"
    /\ value = <<>>
    /\ words(common_words) = <<>>
    /\ safe = "false"

(***************************************************************************)
(* Claims about the size of an alphabet and the length of a secret         *)
(***************************************************************************)
\* C11: the size of an alphabet is the number of Unicode scalar values of
\* its underlying string, counted without deduplication, also when some of
\* its chars are not ASCII.
C11_SizeIsCharCount ==
    pc = "sized" => size = Len(as_str(alphabet))

\* C11 for an alphabet of ASCII chars
C11_OnAscii ==
    pc = "sized" /\ IsAscii(as_str(alphabet)) => size = Len(as_str(alphabet))

\* C12: for every accepted secret the entropy behind the tier is computed
\* from the number of chars (Unicode scalar values) of the secret and the
\* size of the alphabet: a secret of k chars is scored with length k
\* whatever chars it holds.
C12_ScoredByCharCount ==
    pc = "classified" /\ classification # "Err" =>
        entropy_bits =
            IF Len(value) = 0 \/ len(alphabet) = 0 THEN 0
            ELSE Len(value) * Log2(len(alphabet))

\* C12 for a secret of ASCII chars
C12_OnAscii ==
    pc = "classified" /\ classification # "Err" /\ IsAscii(value) =>
        entropy_bits =
            IF Len(value) = 0 \/ len(alphabet) = 0 THEN 0
            ELSE Len(value) * Log2(len(alphabet))

(***************************************************************************)
(* wordlist.rs: parse_eff_line and the wordlist loaders                    *)
(***************************************************************************)
\* the chars of a wordlist line: '\t' ' ' '1' 'a'
LineChar == [tab |-> 9, space |-> 32, one |-> 49, a |-> 97]

LineChars == {LineChar.tab, LineChar.space, LineChar.one, LineChar.a}

\* longest line (in chars) handed to parse_eff_line
MaxLineLen == 4
\* most lines of a wordlist resource
MaxFileLines == 2

RECURSIVE Split(_, _)
\* str::split(sep): the fields between the separators, in order
Split(s, sep) ==
    IF \A i \in DOMAIN s : s[i] # sep THEN <<s>>
    ELSE LET i == CHOOSE k \in DOMAIN s :
                      s[k] = sep /\ \A j \in 1..(k - 1) : s[j] # sep
         IN  <<SubSeq(s, 1, i - 1)>> \o Split(SubSeq(s, i + 1, Len(s)), sep)

\* Iterator::nth(n)
Nth(fields, n) == IF n + 1 <= Len(fields) THEN Some(fields[n + 1]) ELSE None

\* the last field where the code takes nth(1)
ParseEffLineLast(l) ==
    LET fields == Split(l, LineChar.tab)
    IN  IF Len(fields) >= 2 THEN Some(fields[Len(fields)]) ELSE None

\* parse_eff_line
parse_eff_line(l) == Nth(Split(l, LineChar.tab), 1)

RECURSIVE FilterMapParse(_)
\* lines().filter_map(|line| parse_eff_line(line)).collect()
FilterMapParse(lines) ==
    IF lines = <<>> THEN <<>>
    ELSE LET r == parse_eff_line(Head(lines))
         IN  (IF r.some THEN <<r.word>> ELSE <<>>) \o FilterMapParse(Tail(lines))

\* parse_eff_line(line)
ParseEffLine ==
    /\ pc = "ready"
    /\ pc' = "parsed"
    /\ parsed' = parse_eff_line(line)
    /\ UNCHANGED <<line, file, loaded>>
    /\ UNCHANGED <<value, alphabet, common_words, words_arg, alphabet_arg,
                   entropy_bits, classification, combination, safe,
                   segmentation>>
    /\ UNCHANGED <<sizeVars, genVars, phraseVars, libVars>>

\* the closure of get_eff_large_wordlist (and of the two short lists) on
\* the lines of its resource
LoadWordlist ==
    /\ pc = "ready"
    /\ pc' = "loaded"
    /\ loaded' = FilterMapParse(file)
    /\ UNCHANGED <<line, file, parsed>>
    /\ UNCHANGED <<value, alphabet, common_words, words_arg, alphabet_arg,
                   entropy_bits, classification, combination, safe,
                   segmentation>>
    /\ UNCHANGED <<sizeVars, genVars, phraseVars, libVars>>

\* "11\ta" "a" "\t" "1\ta\t1" "1\t a "
FileLines ==
    {<<LineChar.one, LineChar.one, LineChar.tab, LineChar.a>>,
     <<LineChar.a>>,
     <<LineChar.tab>>,
     <<LineChar.one, LineChar.tab, LineChar.a, LineChar.tab, LineChar.one>>,
     <<LineChar.one, LineChar.tab, LineChar.space, LineChar.a, LineChar.space>>}

\* no call has returned anything yet
CallFresh ==
    /\ pc = "ready"
    /\ entropy_bits = NotComputed
    /\ classification = "None"
    /\ combination = "none"
    /\ safe = "none"
    /\ segmentation = 0
    /\ alphabet_arg = 0
    /\ words_arg = <<>>

\* no password call is under way
CallIdle ==
    /\ CallFresh
    /\ value = <<>>
    /\ alphabet = Preset("Full")
    /\ common_words = NoCorpus

InitWordlist ==
    /\ CallIdle
    /\ SizeIdle
    /\ GenIdle
    /\ PhraseIdle
    /\ LibIdle
    /\ line \in StrsUpTo(LineChars, MaxLineLen)
    /\ file \in StrsUpTo(FileLines, MaxFileLines)
    /\ parsed = None
    /\ loaded = <<>>

NextWordlist == ParseEffLine \/ LoadWordlist

SpecWordlist == InitWordlist /\ [][NextWordlist]_vars

(***************************************************************************)
(* Claims about the wordlist line parser                                   *)
(***************************************************************************)
HasTab(l) == \E i \in DOMAIN l : l[i] = LineChar.tab

\* the lines of a file that hold a tab, in order
RECURSIVE TabLines(_)
TabLines(lines) ==
    IF lines = <<>> THEN <<>>
    ELSE (IF HasTab(Head(lines)) THEN <<Head(lines)>> ELSE <<>>)
             \o TabLines(Tail(lines))

\* w is what lies between the first tab of l and its next tab (or its end)
IsSecondField(l, w) ==
    \E i \in DOMAIN l :
        /\ l[i] = LineChar.tab
        /\ \A j \in 1..(i - 1) : l[j] # LineChar.tab
        /\ \A j \in DOMAIN w : w[j] # LineChar.tab
        /\ Len(l) >= i + Len(w)
        /\ w = SubSeq(l, i + 1, i + Len(w))
        /\ (Len(l) > i + Len(w) => l[i + Len(w) + 1] = LineChar.tab)

\* C16: the wordlist line parser returns the second tab-separated field of
\* a line, verbatim: no word for a line without a tab (the loaders skip
\* it), the second field also when more fields follow, the empty word for a
\* line that is only a tab; surrounding whitespace is kept.
C16_ParserTakesSecondField ==
    /\ pc = "parsed" =>
          /\ parsed.some <=> HasTab(line)
          /\ parsed.some => IsSecondField(line, parsed.word)
    /\ pc = "loaded" =>
          /\ Len(loaded) = Len(TabLines(file))
          /\ \A i \in DOMAIN loaded : IsSecondField(TabLines(file)[i], loaded[i])

\* "1\t \t": three fields, the second (one space) returned verbatim
C16_Witness ==
    /\ pc = "parsed"
    /\ line = <<LineChar.one, LineChar.tab, LineChar.space, LineChar.tab>>
    /\ parsed = Some(<<LineChar.space>>)

\* a line that is only a tab yields the empty word
C16_WitnessOnlyTab ==
    /\ pc = "parsed"
    /\ line = <<LineChar.tab>>
    /\ parsed = Some(<<>>)

\* a loader skips the line without a tab
C16_WitnessSkipped ==
    /\ pc = "loaded"
    /\ file = <<<<LineChar.a>>, <<LineChar.tab>>>>
    /\ loaded = <<<<>>>>

(***************************************************************************)
(* generate.rs, passphrase.rs and generate_password of main.rs             *)
(***************************************************************************)
\* longest password asked of generate
MaxGenLen == 3
\* longest Custom alphabet (in chars) handed to generate
MaxGenAlphabet == 2
\* most words asked of generate_passphrase
MaxWordCount == 3
\* most words of a Custom wordlist
MaxListLen == 2

\* a password of len + 1 chars
GenerateInclusive(n, a) ==
    LET chars == as_str(a)
    IN  IF chars = <<>> THEN {<<>>}
        ELSE {[i \in 1..(n + 1) |-> chars[idx[i]]] :
                 idx \in [1..(n + 1) -> DOMAIN chars]}

\* the chars drawn from FULL whatever the alphabet
GenerateFromFull(n, a) ==
    IF as_str(a) = <<>> THEN {<<>>}
    ELSE {[i \in 1..n |-> FULL[idx[i]]] : idx \in [1..n -> {1, 27}]}

\* Password::generate: every password the random indices can produce
Generate(n, a) ==
    LET chars == as_str(a)
    IN  IF chars = <<>> THEN {<<>>}
        ELSE {[i \in 1..n |-> chars[idx[i]]] : idx \in [1..n -> DOMAIN chars]}

\* generate_password(length, alphabet, strength)
GeneratePassword ==
    /\ pc = "ready"
    /\ pc' = "generated"
    /\ value' \in Generate(gen_len, alphabet)
    /\ IF strength
       THEN /\ classification' = ClassifyRun(value', alphabet).result
            /\ entropy_bits' = ClassifyRun(value', alphabet).entropy
            /\ output' = IF classification' = "Err" THEN "panic" ELSE "printed"
       ELSE /\ UNCHANGED <<classification, entropy_bits>>
            /\ output' = "printed"
    /\ UNCHANGED <<gen_len, strength>>
    /\ UNCHANGED <<alphabet, common_words, words_arg, alphabet_arg,
                   combination, safe, segmentation>>
    /\ UNCHANGED <<sizeVars, parseVars, phraseVars, libVars>>

GenAlphabets ==
    {Preset("Digits"), Preset("SpecialChars")}
        \cup {Custom(s) : s \in StrsUpTo(ClassifyChars, MaxGenAlphabet)}

InitGenerate ==
    /\ CallFresh
    /\ SizeIdle
    /\ ParseIdle
    /\ PhraseIdle
    /\ LibIdle
    /\ value = <<>>
    /\ common_words = NoCorpus
    /\ alphabet \in GenAlphabets
    /\ gen_len \in 0..MaxGenLen
    /\ strength \in BOOLEAN
    /\ output = "none"

NextGenerate == GeneratePassword

SpecGenerate == InitGenerate /\ [][NextGenerate]_vars

(***************************************************************************)
(* Claims about generate and generate_password                             *)
(***************************************************************************)
\* C17: for every length len and every non-empty alphabet A,
\* Password::generate(len, A) returns a password of exactly len chars, each
\* contained in A, whichever random choices are made; with len = 0 the
\* password is empty.
C17_GeneratedFromAlphabet ==
    pc = "generated" /\ as_str(alphabet) # <<>> =>
        /\ Len(value) = gen_len
        /\ \A i \in DOMAIN value : value[i] \in CharsOf(alphabet)
        /\ gen_len = 0 => value = <<>>

\* three chars drawn from a two-char alphabet, both chars drawn
C17_Witness ==
    /\ pc = "generated"
    /\ gen_len = 3
    /\ alphabet = Custom(<<Char.e_acute, Char.a>>)
    /\ value = <<Char.a, Char.e_acute, Char.a>>

\* C19: for every alphabet A, the empty Custom alphabet included, and every
\* length, classify with A never returns an error on a password produced by
\* Password::generate(len, A): the unwrap in generate_password cannot panic.
C19_GeneratedPasswordClassifies ==
    pc = "generated" /\ strength =>
        classification \in Tiers /\ output = "printed"

\* a positive length over the empty Custom alphabet: the empty password, Weak
C19_Witness ==
    /\ pc = "generated"
    /\ strength
    /\ alphabet = Custom(<<>>)
    /\ gen_len > 0
    /\ value = <<>>
    /\ classification = "Weak"

(***************************************************************************)
(* passphrase.rs: generate_passphrase                                      *)
(***************************************************************************)
\* WordList::Custom(Vec<String>)
CustomList(ws) == [tag |-> "Custom", custom |-> ws]

\* WordList::words
wordlist_words(wl) == wl.custom

\* a separator after every word, the last one included
RECURSIVE JoinTrailing(_, _)
JoinTrailing(parts, sep) ==
    IF parts = <<>> THEN <<>>
    ELSE Head(parts) \o sep \o JoinTrailing(Tail(parts), sep)

RECURSIVE Join(_, _)
\* [&str]::join(separator)
Join(parts, sep) ==
    IF parts = <<>> THEN <<>>
    ELSE IF Len(parts) = 1 THEN parts[1]
    ELSE Head(parts) \o sep \o Join(Tail(parts), sep)

\* generate_passphrase(word_count, separator, &wordlist)
GeneratePassphrase ==
    /\ pc = "ready"
    /\ pc' = "phrased"
    /\ LET ws == wordlist_words(wordlist)
       IN  IF ws = <<>> \/ word_count = 0
           THEN /\ value' = <<>>
                /\ passphrase_parts' = <<>>
           ELSE \E idx \in [1..word_count -> DOMAIN ws] :
                   /\ passphrase_parts' = [i \in 1..word_count |-> ws[idx[i]]]
                   /\ value' = Join(passphrase_parts', separator)
    /\ UNCHANGED <<word_count, separator, wordlist>>
    /\ UNCHANGED <<alphabet, common_words, words_arg, alphabet_arg,
                   entropy_bits, classification, combination, safe,
                   segmentation>>
    /\ UNCHANGED <<sizeVars, parseVars, genVars, libVars>>

\* the words of the wordlists drawn: "" "a" "ab"
ListWords == {<<>>, <<Char.a>>, <<Char.a, Char.b>>}

\* the separators drawn: "" "-" "ab"
Separators == {<<>>, <<45>>, <<Char.a, Char.b>>}

InitPassphrase ==
    /\ CallIdle
    /\ SizeIdle
    /\ ParseIdle
    /\ GenIdle
    /\ LibIdle
    /\ word_count \in 0..MaxWordCount
    /\ separator \in Separators
    /\ wordlist \in {CustomList(ws) : ws \in StrsUpTo(ListWords, MaxListLen)}
    /\ passphrase_parts = <<>>

NextPassphrase == GeneratePassphrase

SpecPassphrase == InitPassphrase /\ [][NextPassphrase]_vars

(***************************************************************************)
(* Claims about generate_passphrase                                        *)
(***************************************************************************)
RECURSIVE Flatten(_, _)
\* the strs of items[k..], one after the other
Flatten(items, k) ==
    IF k > Len(items) THEN <<>> ELSE items[k] \o Flatten(items, k + 1)

\* the parts at the odd places, the separator at the even places between
Interleaved(parts, sep) ==
    [k \in 1..(2 * Len(parts) - 1) |->
        IF k % 2 = 1 THEN parts[(k + 1) \div 2] ELSE sep]

\* C18: generate_passphrase returns the empty passphrase when the wordlist
\* is empty or word_count is 0; otherwise its value is exactly word_count
\* words, each an element of the wordlist (repeats allowed), joined by
\* word_count - 1 copies of the separator, whichever random choices are
\* made.
C18_PassphraseIsWordsJoined ==
    pc = "phrased" =>
        IF wordlist_words(wordlist) = <<>> \/ word_count = 0
        THEN value = <<>>
        ELSE /\ Len(passphrase_parts) = word_count
             /\ \A i \in DOMAIN passphrase_parts :
                   \E j \in DOMAIN wordlist_words(wordlist) :
                      passphrase_parts[i] = wordlist_words(wordlist)[j]
             /\ value = Flatten(Interleaved(passphrase_parts, separator), 1)
             /\ Len(value) =
                   Len(Flatten(passphrase_parts, 1))
                       + (word_count - 1) * Len(separator)

\* three words, one of them repeated, joined by two "-"
C18_Witness ==
    /\ pc = "phrased"
    /\ word_count = 3
    /\ separator = <<45>>
    /\ passphrase_parts = <<<<Char.a>>, <<Char.a, Char.b>>, <<Char.a>>>>
    /\ value = <<Char.a, 45, Char.a, Char.b, 45, Char.a>>

\* no words drawn from the empty wordlist
C18_WitnessEmptyList ==
    /\ pc = "phrased"
    /\ word_count > 0
    /\ wordlist_words(wordlist) = <<>>
    /\ value = <<>>

(***************************************************************************)
(* commonwords.rs and wordlist.rs: the resources and their OnceLock caches *)
(***************************************************************************)
\* the line ends of a resource text: '\n' '\r'
FileChar == [lf |-> 10, cr |-> 13]

\* strip_suffix('\r')
StripCr(l) ==
    IF l # <<>> /\ l[Len(l)] = FileChar.cr THEN SubSeq(l, 1, Len(l) - 1) ELSE l

\* str::lines: the pieces ended by '\n' lose it and a '\r' before it, the
\* rest after the last '\n' is a line unless it is empty
Lines(text) ==
    LET parts == Split(text, FileChar.lf)
        n == Len(parts)
        ended == [i \in 1..(n - 1) |-> StripCr(parts[i])]
    IN  IF parts[n] = <<>> THEN ended ELSE Append(ended, parts[n])

\* the closure handed to get_or_init by the loader of a cache other than
\* All: lines().collect() for a corpus, and through parse_eff_line for a
\* wordlist
Collect(c, texts) ==
    IF c \in Wordlists THEN FilterMapParse(Lines(texts[c]))
    ELSE Lines(texts[c])

Range(ws) == {ws[i] : i \in DOMAIN ws}

\* extend that forgets what the HashSet held
ExtendOverwrite(all_words, ws) == Range(ws)

\* all_words.extend(ws.iter())
Extend(all_words, ws) == all_words \cup Range(ws)

\* all_words.into_iter().collect(): the words once each, in the order the
\* HashSet happens to iterate in
IntoVec(all_words) ==
    {v \in [1..Cardinality(all_words) -> all_words] : Range(v) = all_words}

\* a OnceLock that does not know it is complete
NeverInitialized(st) == FALSE

\* OnceLock: the value is set
IsInitialized(st) == st = "complete"

\* a OnceLock whose callers do not wait for the running closure
CanInitRacy(st) == TRUE

\* OnceLock: a caller that finds no value runs the closure unless another
\* caller is running it, and waits otherwise
CanInit(st) == st # "running"

Top(t) == callers[t].stack[Len(callers[t].stack)]

\* CommonWords::words or WordList::words on the cache c, by thread t
Request(t, c) ==
    /\ callers[t].pc = "idle"
    /\ callers[t].calls < MaxCalls
    /\ callers' = [callers EXCEPT ![t] =
                      [@ EXCEPT !.pc = "enter", !.stack = <<c>>, !.want = c,
                                !.got = None, !.calls = @ + 1]]
    /\ asked' = asked \cup {c}
    /\ UNCHANGED <<resources, once, cache, runs, first>>

\* get_or_init finds the value set: words() returns its to_vec(), and inside
\* the closure of get_common_all the HashSet is extended by it
Get(t) ==
    /\ callers[t].pc = "enter"
    /\ IsInitialized(once[Top(t)])
    /\ LET c == Top(t)
           v == cache[c].word
       IN  IF Len(callers[t].stack) = 1
           THEN /\ callers' = [callers EXCEPT ![t] =
                                  [@ EXCEPT !.pc = "idle", !.stack = <<>>,
                                            !.got = Some(v)]]
                /\ first' = IF first[c].some THEN first
                            ELSE [first EXCEPT ![c] = Some(v)]
           ELSE /\ callers' = [callers EXCEPT ![t] =
                                  [@ EXCEPT !.pc = "closure",
                                            !.stack = SubSeq(@, 1, Len(@) - 1),
                                            !.acc = Extend(@, v),
                                            !.k = @ + 1]]
                /\ first' = first
    /\ UNCHANGED <<resources, once, cache, runs, asked>>

\* get_or_init finds no value and nobody at work: this thread enters the
\* closure
Claim(t) ==
    /\ callers[t].pc = "enter"
    /\ ~IsInitialized(once[Top(t)])
    /\ CanInit(once[Top(t)])
    /\ LET c == Top(t)
       IN  /\ once' = [once EXCEPT ![c] = "running"]
           /\ runs' = [runs EXCEPT ![c] = @ + 1]
           /\ callers' = [callers EXCEPT ![t] =
                             IF c = "All"
                             THEN [@ EXCEPT !.pc = "closure", !.k = 1,
                                            !.acc = {}]
                             ELSE [@ EXCEPT !.pc = "closure"]]
    /\ UNCHANGED <<resources, cache, first, asked>>

\* the closure of a corpus or wordlist loader ends and get_or_init sets
\* the value
Load(t) ==
    /\ callers[t].pc = "closure"
    /\ Top(t) # "All"
    /\ LET c == Top(t)
       IN  /\ cache' = [cache EXCEPT ![c] = Some(Collect(c, resources))]
           /\ once' = [once EXCEPT ![c] = "complete"]
    /\ callers' = [callers EXCEPT ![t] = [@ EXCEPT !.pc = "enter"]]
    /\ UNCHANGED <<resources, runs, first, asked>>

\* the closure of get_common_all calls the loader of its next corpus
Visit(t) ==
    /\ callers[t].pc = "closure"
    /\ Top(t) = "All"
    /\ callers[t].k <= Len(NamedCorpora)
    /\ callers' = [callers EXCEPT ![t] =
                      [@ EXCEPT !.pc = "enter",
                                !.stack = Append(@, NamedCorpora[callers[t].k])]]
    /\ UNCHANGED <<resources, once, cache, runs, first, asked>>

\* the closure of get_common_all ends and get_or_init sets the value
LoadAll(t) ==
    /\ callers[t].pc = "closure"
    /\ Top(t) = "All"
    /\ callers[t].k > Len(NamedCorpora)
    /\ \E v \in IntoVec(callers[t].acc) :
          cache' = [cache EXCEPT !["All"] = Some(v)]
    /\ once' = [once EXCEPT !["All"] = "complete"]
    /\ callers' = [callers EXCEPT ![t] = [@ EXCEPT !.pc = "enter"]]
    /\ UNCHANGED <<resources, runs, first, asked>>

\* the texts of the three wordlists: "1\ta\n1\tb\n" and "a\n\t\n"
WordlistTexts ==
    [EffLarge |-> <<LineChar.one, LineChar.tab, LineChar.a, FileChar.lf,
                    LineChar.one, LineChar.tab, Char.b, FileChar.lf>>,
     EffShort1 |-> <<LineChar.a, FileChar.lf, LineChar.tab, FileChar.lf>>,
     EffShort2 |-> <<>>]

\* the resources of a build, from the texts of its five corpora
Build(passwords, english, male_names, female_names, last_names) ==
    [r \in Resources |->
        CASE r = "Passwords" -> passwords
          [] r = "English" -> english
          [] r = "MaleNames" -> male_names
          [] r = "FemaleNames" -> female_names
          [] r = "LastNames" -> last_names
          [] OTHER -> WordlistTexts[r]]

\* the resources the build may have included: corpora that overlap
\* ("a\nb\n" "a\r\na" "b" "" "ab"), corpora that are all empty, one word in
\* three corpora ("b" "" "b" "b\n" ""), one word twice in one corpus
Builds ==
    {Build(<<Char.a, FileChar.lf, Char.b, FileChar.lf>>,
           <<Char.a, FileChar.cr, FileChar.lf, Char.a>>,
           <<Char.b>>, <<>>, <<Char.a, Char.b>>),
     Build(<<>>, <<>>, <<>>, <<>>, <<>>),
     Build(<<Char.b>>, <<>>, <<Char.b>>, <<Char.b, FileChar.lf>>, <<>>),
     Build(<<>>, <<>>, <<>>, <<Char.a, FileChar.cr, FileChar.lf, Char.a>>, <<>>)}

InitCache ==
    /\ CallIdle
    /\ SizeIdle
    /\ ParseIdle
    /\ GenIdle
    /\ PhraseIdle
    /\ CheckIdle
    /\ CmdIdle
    /\ resources \in Builds
    /\ once = [c \in Caches |-> "incomplete"]
    /\ cache = [c \in Caches |-> None]
    /\ runs = [c \in Caches |-> 0]
    /\ callers = [t \in Callers |-> IdleCaller]
    /\ first = [c \in Caches |-> None]
    /\ asked = {}

NextCache ==
    /\ \E t \in Callers :
          \/ \E c \in Caches : Request(t, c)
          \/ Get(t)
          \/ Claim(t)
          \/ Load(t)
          \/ Visit(t)
          \/ LoadAll(t)
    /\ UNCHANGED <<callVars, sizeVars, parseVars, genVars, phraseVars, checkVars,
                   cmdVars>>

SpecCache == InitCache /\ [][NextCache]_vars

(***************************************************************************)
(* main.rs: check_password_safety                                          *)
(***************************************************************************)
\* longest secret (in chars) handed to check_password_safety
MaxCheckLen == 2

\* SAFETY_CHECKS
SAFETY_CHECKS ==
    <<[word_type |-> "Passwords", description |-> "common password"],
      [word_type |-> "English", description |-> "common English word"],
      [word_type |-> "MaleNames", description |-> "common male name"],
      [word_type |-> "FemaleNames", description |-> "common female name"],
      [word_type |-> "LastNames", description |-> "common last name"],
      [word_type |-> "All", description |-> "combination of common words"]>>

RECURSIVE AllWords(_, _, _)
\* the HashSet of get_common_all's closure after the corpora from k on
AllWords(texts, k, all_words) ==
    IF k > Len(NamedCorpora) THEN all_words
    ELSE AllWords(texts, k + 1, Extend(all_words, Lines(texts[NamedCorpora[k]])))

\* words() with nothing behind All
CorpusWordsNoUnion(c, texts, all) == IF c = "All" THEN <<>> ELSE Lines(texts[c])

\* CommonWords::words for a named corpus, and for All given the Vec all
\* that COMMON_ALL_CACHE holds or comes to hold
CorpusWords(c, texts, all) == IF c = "All" THEN all ELSE Lines(texts[c])

RECURSIVE Stop(_, _)
\* the check at which the loop over SAFETY_CHECKS leaves, from check i on:
\* the first whose is_safe is not true, or one past the last
Stop(verdicts, i) ==
    IF i > Len(verdicts) THEN Len(verdicts) + 1
    ELSE IF verdicts[i] # "true" THEN i
    ELSE Stop(verdicts, i + 1)

\* what password.is_safe(word_type) does for each of SAFETY_CHECKS
Verdicts(v, texts, all) ==
    [i \in DOMAIN SAFETY_CHECKS |->
        IsSafeRun(v, CustomWords(CorpusWords(SAFETY_CHECKS[i].word_type,
                                             texts, all))).ret]

\* the caches the calls of words() up to the check stop have gone through:
\* is_safe returns before words() on the empty password
Touched(v, stop) ==
    IF Bytes(v) = <<>> THEN {}
    ELSE {SAFETY_CHECKS[i].word_type :
              i \in {j \in DOMAIN SAFETY_CHECKS : j <= stop}}

\* check_password_safety(&password) in a program with one thread: the loop
\* with its early return, the panic of is_safe unwinding through it, and
\* the caches its calls of words() fill. The closure of get_common_all runs,
\* and the order of its Vec is drawn, when the loop reaches the check
\* against All with the cache empty
RunSafetyChecks ==
    /\ \E reached \in {Stop(SubSeq(Verdicts(value, resources, <<>>),
                                    1, Len(NamedCorpora)), 1)} :
       \E all \in IF reached <= Len(NamedCorpora) THEN {<<>>}
                  ELSE IF cache["All"].some THEN {cache["All"].word}
                  ELSE IntoVec(AllWords(resources, 1, {})) :
       \E stop \in {Stop(Verdicts(value, resources, all), reached)} :
       \E touched \in {Touched(value, stop)} :
          /\ message' =
                IF stop > Len(SAFETY_CHECKS) THEN "None"
                ELSE IF Verdicts(value, resources, all)[stop] = "panic"
                     THEN "panic"
                     ELSE SAFETY_CHECKS[stop].description
          /\ once' = [c \in Caches |->
                         IF c \in touched THEN "complete" ELSE once[c]]
          /\ cache' = [c \in Caches |->
                          IF c \in touched /\ ~cache[c].some
                          THEN Some(CorpusWords(c, resources, all))
                          ELSE cache[c]]
          /\ runs' = [c \in Caches |->
                         IF c \in touched /\ once[c] # "complete"
                         THEN runs[c] + 1 ELSE runs[c]]
          /\ first' = [c \in Caches |->
                          IF c \in touched /\ ~first[c].some
                          THEN Some(CorpusWords(c, resources, all))
                          ELSE first[c]]
          /\ asked' = asked \cup touched
    /\ UNCHANGED <<resources, callers>>

\* check_password_safety(&password), called on its own
CheckPasswordSafety ==
    /\ pc = "ready"
    /\ pc' = "vetted"
    /\ RunSafetyChecks
    /\ UNCHANGED <<value, alphabet, common_words, words_arg, alphabet_arg,
                   entropy_bits, classification, combination, safe,
                   segmentation>>
    /\ UNCHANGED <<sizeVars, parseVars, genVars, phraseVars, cmdVars>>

\* "a\r\n" "b" "" "e-acute\nab\n"
CheckTexts ==
    {<<Char.a, FileChar.cr, FileChar.lf>>,
     <<Char.b>>,
     <<>>,
     <<Char.e_acute, FileChar.lf, Char.a, Char.b, FileChar.lf>>}

InitCheck ==
    /\ CallFresh
    /\ alphabet = Preset("Full")
    /\ common_words = NoCorpus
    /\ SizeIdle
    /\ ParseIdle
    /\ GenIdle
    /\ PhraseIdle
    /\ CheckIdle
    /\ CmdIdle
    /\ value \in StrsUpTo(SafeChars, MaxCheckLen)
    /\ \E p, e, m, f, l \in CheckTexts : resources = Build(p, e, m, f, l)
    /\ once = [c \in Caches |-> "incomplete"]
    /\ cache = [c \in Caches |-> None]
    /\ runs = [c \in Caches |-> 0]
    /\ callers = [t \in Callers |-> IdleCaller]
    /\ first = [c \in Caches |-> None]
    /\ asked = {}

NextCheck == CheckPasswordSafety

SpecCheck == InitCheck /\ [][NextCheck]_vars

(***************************************************************************)
(* main.rs: the Check command                                              *)
(***************************************************************************)
\* longest secret (in chars) handed to the Check command
MaxCommandLen == 2

\* what the println! of the Check arm with a user wordlist says of the
\* password
ProvidedList == "contains common words from the provided list"

\* how the safety part of the Check arm ends once its calls are made: "pass"
\* when it falls through to classify, "panic" when is_safe unwinds, else
\* what the unsafe line says of the password
SafetyOutcome(is_common, wl, safe_ret, safety_message) ==
    IF ~is_common THEN "pass"
    ELSE IF wl.some
         THEN CASE safe_ret = "true" -> "pass"
                [] safe_ret = "false" -> ProvidedList
                [] OTHER -> "panic"
         ELSE CASE safety_message = "None" -> "pass"
                [] safety_message = "panic" -> "panic"
                [] OTHER -> safety_message

\* the Some(Commands::Check { .. }) arm of main: the safety check when
\* --common is given, against the user wordlist alone if there is one and
\* through check_password_safety if not, with a return after the unsafe
\* line; then classify and its line
CheckCommand ==
    /\ pc = "ready"
    /\ pc' = "commanded"
    /\ IF common /\ user_wordlist.some
       THEN /\ common_words' = CustomWords(user_wordlist.word)
            /\ safe' = IsSafeRun(value, CustomWords(user_wordlist.word)).ret
            /\ segmentation' =
                  IsSafeRun(value, CustomWords(user_wordlist.word)).calls
            /\ UNCHANGED <<cacheVars, checkVars>>
       ELSE IF common
            THEN /\ RunSafetyChecks
                 /\ UNCHANGED <<common_words, safe, segmentation>>
            ELSE UNCHANGED <<common_words, safe, segmentation, cacheVars,
                             checkVars>>
    /\ \E outcome \in {SafetyOutcome(common, user_wordlist, safe', message')} :
          CASE outcome = "pass" ->
                 /\ classification' = ClassifyRun(value, alphabet).result
                 /\ entropy_bits' = ClassifyRun(value, alphabet).entropy
                 /\ stdout' =
                       IF classification' = "Err" THEN <<>>
                       ELSE <<[line |-> "classification",
                               text |-> classification']>>
                 /\ stderr' =
                       IF classification' = "Err"
                       THEN <<[line |-> "error",
                               text |-> "Error classifying password"]>>
                       ELSE <<>>
            [] outcome = "panic" ->
                 /\ stdout' = <<>>
                 /\ stderr' = <<[line |-> "panic", text |-> "panicked"]>>
                 /\ UNCHANGED <<classification, entropy_bits>>
            [] OTHER ->
                 /\ stdout' = <<[line |-> "unsafe", text |-> outcome]>>
                 /\ stderr' = <<>>
                 /\ UNCHANGED <<classification, entropy_bits>>
    /\ UNCHANGED <<value, alphabet, words_arg, alphabet_arg, combination>>
    /\ UNCHANGED <<common, user_wordlist>>
    /\ UNCHANGED <<sizeVars, parseVars, genVars, phraseVars>>

\* "a\r\n" "b" "e-acute\nab\n"
CommandTexts ==
    {<<Char.a, FileChar.cr, FileChar.lf>>,
     <<Char.b>>,
     <<Char.e_acute, FileChar.lf, Char.a, Char.b, FileChar.lf>>}

\* the --wordlist values drawn: none, ["a"], ["e-acute", "b"]
CommandWordlists ==
    {None, Some(<<<<Char.a>>>>), Some(<<<<Char.e_acute>>, <<Char.b>>>>)}

\* the alphabets drawn: the default, and one that rejects 'A' and e-acute
CommandAlphabets == {Preset("Full"), Preset("LowerCase")}

InitCommand ==
    /\ CallFresh
    /\ common_words = NoCorpus
    /\ SizeIdle
    /\ ParseIdle
    /\ GenIdle
    /\ PhraseIdle
    /\ CheckIdle
    /\ value \in StrsUpTo(SafeChars, MaxCommandLen)
    /\ alphabet \in CommandAlphabets
    /\ common \in BOOLEAN
    /\ user_wordlist \in CommandWordlists
    /\ stdout = <<>>
    /\ stderr = <<>>
    /\ \E p, e, m, f, l \in CommandTexts : resources = Build(p, e, m, f, l)
    /\ once = [c \in Caches |-> "incomplete"]
    /\ cache = [c \in Caches |-> None]
    /\ runs = [c \in Caches |-> 0]
    /\ callers = [t \in Callers |-> IdleCaller]
    /\ first = [c \in Caches |-> None]
    /\ asked = {}

NextCommand == CheckCommand

SpecCommand == InitCommand /\ [][NextCommand]_vars

(***************************************************************************)
(* Claims about the caches                                                 *)
(***************************************************************************)
\* the words of the five named corpora together
NamedWords(texts) == UNION {Range(Lines(texts[c])) : c \in Named}

\* v is the finished content of the cache c
FullyBuilt(c, v) ==
    IF c = "All"
    THEN Range(v) = NamedWords(resources) /\ Len(v) = Cardinality(Range(v))
    ELSE v = Collect(c, resources)

\* C13: however the callers interleave, the closure of each cache is entered
\* at most once, what a call returns is the finished content of the cache it
\* asked for, and two calls for the same cache return the same value
C13_InitialisedOnceObservedWhole ==
    /\ \A c \in Caches : runs[c] <= 1
    /\ \A c \in Caches : cache[c].some => FullyBuilt(c, cache[c].word)
    /\ \A t \in Callers :
          callers[t].got.some => FullyBuilt(callers[t].want, callers[t].got.word)
    /\ \A t, u \in Callers :
          /\ callers[t].got.some
          /\ callers[u].got.some
          /\ callers[t].want = callers[u].want
          => callers[t].got = callers[u].got

\* two threads are inside get_or_init of the same cache, which no call has
\* returned from yet: one ran the closure, the other came while it ran
C13_Witness ==
    \E t, u \in Callers : \E c \in Caches :
        /\ t # u
        /\ callers[t].pc = "enter" /\ callers[t].stack = <<c>>
        /\ callers[u].pc = "enter" /\ callers[u].stack = <<c>>
        /\ once[c] = "complete"
        /\ runs[c] = 1
        /\ ~first[c].some

\* both threads asked for All first, and both have it
C13_WitnessBothReturned ==
    \E t, u \in Callers :
        /\ t # u
        /\ callers[t].calls = 1 /\ callers[u].calls = 1
        /\ callers[t].want = "All" /\ callers[u].want = "All"
        /\ callers[t].got.some /\ callers[u].got.some

\* a wordlist cache under contention
C13_WitnessWordlist ==
    \E t, u \in Callers :
        /\ t # u
        /\ callers[t].pc = "closure" /\ callers[t].stack = <<"EffLarge">>
        /\ callers[u].pc = "enter" /\ callers[u].stack = <<"EffLarge">>

\* what a call for a cache returned is what the first call for it returned
ReturnsFirst ==
    \A t \in Callers :
        callers[t].got.some => callers[t].got = first[callers[t].want]

\* a cache that holds its value keeps it
KeepsValue ==
    \A c \in Caches :
        once[c] = "complete" => once'[c] = "complete" /\ cache'[c] = cache[c]

\* C14: loading is idempotent: every call for a cache returns the content
\* the first call for it returned, and a cache once initialised is never
\* modified
C14_LoadingIsIdempotent == []ReturnsFirst /\ [][KeepsValue]_vars

\* a thread asked twice, the second time for a cache the other thread has
\* been given too
C14_Witness ==
    \E t, u \in Callers :
        /\ t # u
        /\ callers[t].calls >= 2
        /\ callers[t].want = callers[u].want
        /\ callers[t].got.some /\ callers[u].got.some
        /\ callers[t].got.word # <<>>

\* C15: All holds the words of the five named corpora, each once; its
\* closure is entered once, and not before a caller asks for All
C15_AllIsUnionOnFirstAccess ==
    /\ cache["All"].some =>
          /\ \A w \in NamedWords(resources) \cup Range(cache["All"].word) :
                (\E i \in DOMAIN cache["All"].word : cache["All"].word[i] = w)
                    <=> (\E c \in Named : w \in Range(Lines(resources[c])))
          /\ \A i, j \in DOMAIN cache["All"].word :
                cache["All"].word[i] = cache["All"].word[j] => i = j
    /\ runs["All"] <= 1
    /\ "All" \notin asked =>
          runs["All"] = 0 /\ once["All"] = "incomplete" /\ ~cache["All"].some
    /\ \A t \in Callers :
          callers[t].want = "All" /\ callers[t].got.some => runs["All"] = 1

\* a thread asked for Passwords and then for All, and All came as the three
\* words of corpora that hold five between them
C15_Witness ==
    \E t \in Callers :
        /\ callers[t].calls = 2
        /\ callers[t].want = "All"
        /\ callers[t].got.some
        /\ Len(callers[t].got.word) = 3
        /\ first["Passwords"].some
        /\ Len(first["Passwords"].word) = 2

\* named corpora are loaded and All untouched, nobody having asked for it
C15_WitnessNotBefore ==
    /\ "All" \notin asked
    /\ once["Passwords"] = "complete"
    /\ once["English"] = "complete"
    /\ once["All"] = "incomplete"

(***************************************************************************)
(* Claims about check_password_safety                                      *)
(***************************************************************************)
\* the words of a named corpus or of All (in some order) in this build
Dictionary(c) ==
    CorpusWords(c, resources, SeqOf(AllWords(resources, 1, {})))

\* what is_safe does for the password against the words ws
SafeAgainst(ws) == IsSafeRun(value, CustomWords(ws)).ret

\* the dictionaries of SAFETY_CHECKS, in its order
Dictionaries ==
    <<Dictionary("Passwords"), Dictionary("English"), Dictionary("MaleNames"),
      Dictionary("FemaleNames"), Dictionary("LastNames"), Dictionary("All")>>

\* C20: is_safe is anti-monotone in the dictionary: safe against a
\* dictionary, the password is safe against every part of it; unsafe
\* against a named corpus, it is unsafe against All; and the message
\* "combination of common words" comes only for a password that is safe
\* against each of the five named corpora
C20_UnsafeStaysUnsafeInLargerDictionary ==
    \A dict \in {Dictionaries} :
    \A verdict \in {<<SafeAgainst(dict[1]), SafeAgainst(dict[2]),
                      SafeAgainst(dict[3]), SafeAgainst(dict[4]),
                      SafeAgainst(dict[5]), SafeAgainst(dict[6])>>} :
        /\ \A i \in DOMAIN dict :
              verdict[i] = "true" =>
                  \A D \in SUBSET Range(dict[i]) :
                      SafeAgainst(SeqOf(D)) = "true"
        /\ \A i \in DOMAIN NamedCorpora :
              verdict[i] = "false" => verdict[Len(dict)] = "false"
        /\ message = "combination of common words" =>
              \A i \in DOMAIN NamedCorpora : verdict[i] = "true"

\* "ab" is no word of any corpus and no chain of words of one corpus, but
\* "a" is in one and "b" in another: the last check is the one that fails
C20_Witness ==
    /\ pc = "vetted"
    /\ message = "combination of common words"
    /\ value = <<Char.a, Char.b>>
    /\ \E c, d \in Named :
          /\ <<Char.a>> \in Range(Dictionary(c))
          /\ <<Char.b>> \in Range(Dictionary(d))

\* a password in the English corpus only: unsafe there and against All
C20_WitnessNamed ==
    /\ pc = "vetted"
    /\ message = "common English word"
    /\ SafeAgainst(Dictionary("Passwords")) = "true"
    /\ SafeAgainst(Dictionary("English")) = "false"
    /\ SafeAgainst(Dictionary("All")) = "false"

\* a password safe against All and so against every named corpus
C20_WitnessSafe ==
    /\ pc = "vetted"
    /\ message = "None"
    /\ Dictionary("All") # <<>>
    /\ Len(value) = 2

(***************************************************************************)
(* Claims about the exact-match step of is_safe                            *)
(***************************************************************************)
\* the bool is_safe makes of what the segmentation routine returned; a panic
\* of the routine unwinds through is_safe
Negation(r) ==
    CASE r = "true" -> "false"
      [] r = "false" -> "true"
      [] OTHER -> r

\* C21: for every non-empty secret and every corpus, is_safe returns the
\* negation of is_combination_of_word_set on the same word set: the
\* exact-match step changes no result.
C21_ExactMatchIsRedundant ==
    (/\ pc = "checked"
     /\ value # <<>>)
        => safe = Negation(is_combination_of_word_set(
                               value, WordSet(words(common_words))))

\* C21 where the lower-cased secret is ASCII
C21_OnAscii ==
    (/\ pc = "checked"
     /\ value # <<>>
     /\ IsAscii(ToLowercase(value)))
        => safe = Negation(is_combination_of_word_set(
                               value, WordSet(words(common_words))))

\* an ASCII secret that is an entry of the corpus: the exact-match step
\* returns false and the segmentation routine would have found it too
C21_WitnessOnAscii ==
    /\ pc = "checked"
    /\ value = <<Char.A, Char.b>>
    /\ ToLowercase(value) \in Entries(words(common_words))
    /\ safe = "false"
    /\ segmentation = 0

(***************************************************************************)
(* Claims about the Check command                                          *)
(***************************************************************************)
\* what is_safe does for the password against each corpus the command is to
\* check: the user wordlist alone, or the six of SAFETY_CHECKS in its order
CheckedVerdicts ==
    IF user_wordlist.some
    THEN <<SafeAgainst(user_wordlist.word)>>
    ELSE <<SafeAgainst(Dictionaries[1]), SafeAgainst(Dictionaries[2]),
           SafeAgainst(Dictionaries[3]), SafeAgainst(Dictionaries[4]),
           SafeAgainst(Dictionaries[5]), SafeAgainst(Dictionaries[6])>>

\* the first corpus against which is_safe is false
FirstUnsafe(verdict) ==
    CHOOSE i \in DOMAIN verdict :
        /\ verdict[i] = "false"
        /\ \A j \in 1..(i - 1) : verdict[j] # "false"

\* the command printed the unsafe line text and nothing else, and did not
\* call classify
OnlyUnsafeLine(text) ==
    /\ stdout = <<[line |-> "unsafe", text |-> text]>>
    /\ classification = "None"
    /\ entropy_bits = NotComputed

\* the body of C22 for the verdicts of the checked corpora
SafetyBeforeStrength(verdict) ==
    /\ (\E i \in DOMAIN verdict : verdict[i] = "false") =>
          OnlyUnsafeLine(IF user_wordlist.some THEN ProvidedList
                         ELSE SAFETY_CHECKS[FirstUnsafe(verdict)].description)
    /\ classification # "None" =>
          \A i \in DOMAIN verdict : verdict[i] = "true"
    /\ user_wordlist.some =>
          /\ asked = {}
          /\ \A c \in Caches : runs[c] = 0 /\ once[c] = "incomplete"
          /\ message = "none"

C22_OnAscii ==
    (pc = "commanded" /\ common /\ IsAscii(ToLowercase(value))) =>
        \A verdict \in {CheckedVerdicts} : SafetyBeforeStrength(verdict)

\* "b" passes the Passwords check and fails the English one: one line,
\* naming English, and no classification
C22_WitnessBuiltIn ==
    /\ pc = "commanded"
    /\ common
    /\ ~user_wordlist.some
    /\ value = <<Char.b>>
    /\ stdout = <<[line |-> "unsafe", text |-> "common English word"]>>
    /\ classification = "None"

\* "b" against the user wordlist that holds it, with a Passwords corpus that
\* holds it too: the line of the provided list, no cache touched
C22_WitnessWordlist ==
    /\ pc = "commanded"
    /\ common
    /\ user_wordlist.some
    /\ value = <<Char.b>>
    /\ <<Char.b>> \in Range(Dictionaries[1])
    /\ stdout = <<[line |-> "unsafe", text |-> ProvidedList]>>
    /\ asked = {}

\* a secret that passes all six checks and is classified
C22_WitnessClassified ==
    /\ pc = "commanded"
    /\ common
    /\ ~user_wordlist.some
    /\ message = "None"
    /\ Len(stdout) = 1
    /\ stdout[1].line = "classification"

(***************************************************************************)
(* checker.rs: classify compared across secrets and alphabets              *)
(***************************************************************************)
\* longest run of one char in the secrets compared
MaxMonotoneRun == 14
\* longest run of one char in the Custom alphabets compared
MaxMonotoneAlphabetRun == 4

\* 'a' (1 byte) and e-acute (2 bytes)
MonotoneChars == {Char.a, Char.e_acute}

MonotoneSecrets == RunStrs(MonotoneChars, MaxMonotoneRun)

MonotoneAlphabets ==
    {Preset(t) : t \in Presets}
        \cup {Custom(s) : s \in RunStrs(MonotoneChars, MaxMonotoneAlphabetRun)}

InitMonotone ==
    /\ InitCommon
    /\ value \in MonotoneSecrets
    /\ alphabet \in MonotoneAlphabets
    /\ common_words = NoCorpus

NextMonotone == Classify

SpecMonotone == InitMonotone /\ [][NextMonotone]_vars

(***************************************************************************)
(* Claims about the order of the tiers                                     *)
(***************************************************************************)
\* Weak < Medium < Strong < VeryStrong
TierRank(t) ==
    CASE t = "Weak" -> 1
      [] t = "Medium" -> 2
      [] t = "Strong" -> 3
      [] t = "VeryStrong" -> 4

\* the size of an alphabet: the chars of its underlying string
AlphabetSize(a) == Len(as_str(a))

\* the secret v over the alphabet a is accepted and its tier is not above t
NotAbove(v, a, t) ==
    \A r \in {ClassifyRun(v, a).result} :
        r # "Err" => TierRank(r) <= TierRank(t)

\* the body of C23 for the secrets vs and the alphabets as compared with
\* the classified one
MonotoneAgainst(vs, as) ==
    /\ \A v \in vs :
          Len(v) <= Len(value) => NotAbove(v, alphabet, classification)
    /\ \A v \in vs : \A a \in as :
          Len(v) = Len(value) /\ AlphabetSize(a) <= AlphabetSize(alphabet)
              => NotAbove(v, a, classification)
    /\ AlphabetSize(alphabet) = 1 => classification = "Weak"

\* C23: among accepted secrets, one with no more chars over the same
\* alphabet, and one with as many chars over an alphabet with no more chars,
\* never gets a higher tier; over an alphabet of one char every accepted
\* secret is Weak.
C23_ClassificationIsMonotone ==
    pc = "classified" /\ classification # "Err" =>
        MonotoneAgainst(MonotoneSecrets, MonotoneAlphabets)

\* C23 among ASCII secrets and alphabets
C23_OnAscii ==
    (/\ pc = "classified"
     /\ classification # "Err"
     /\ IsAscii(value)
     /\ IsAscii(as_str(alphabet))) =>
        MonotoneAgainst({v \in MonotoneSecrets : IsAscii(v)},
                        {a \in MonotoneAlphabets : IsAscii(as_str(a))})

\* fifteen 'a' over LowerCase are VeryStrong and over Custom("a") Weak
C23_WitnessOnAscii ==
    /\ pc = "classified"
    /\ value = Repeat(Char.a, 15)
    /\ alphabet = Preset("LowerCase")
    /\ classification = "VeryStrong"
    /\ ClassifyRun(value, Custom(<<Char.a>>)).result = "Weak"
====
